---- MODULE Spec2Model ----
(***************************************************************************)
(* Model of swift-app-builder/scripts/swift_validate.py: the validator    *)
(* CLI (main), validate_swiftui_view and validate_swift_code.             *)
(*                                                                         *)
(* Text is a sequence of characters.  Fixed literals of the program are   *)
(* one-element sequences holding the literal.  The Swift toolchain, the   *)
(* file system and the operating system are the environment: every exit   *)
(* status, captured stream, timeout and host-level fault they can produce *)
(* is a nondeterministic choice.                                           *)
(***************************************************************************)
EXTENDS Integers, Sequences, FiniteSets, TLC

VARIABLES
  args,        \* argparse namespace: code, file, view, run
  fileText,    \* content of the positional file on disk
  stdinText,   \* content of standard input
  pc,          \* position of the program
  code,        \* main's local `code`
  src,         \* validate_swift_code's parameter `code`
  run,         \* validate_swift_code's parameter `run`
  tempExists,  \* the temporary .swift file exists on disk
  tempText,    \* content of the temporary file
  result,      \* the result dict
  proc,        \* completed type-check process (returncode, stderr)
  exec_proc,   \* completed execution process (returncode, stdout, stderr)
  active,      \* child processes currently alive
  started,     \* child processes started so far, in order
  caught,      \* which except clause ran inside validate_swift_code
  exitCode     \* status passed to sys.exit, -1 while running

vars == <<args, fileText, stdinText, pc, code, src, run, tempExists, tempText,
          result, proc, exec_proc, active, started, caught, exitCode>>

\* ---------------------------------------------------------------- bounds
MaxLen == 1
MaxExit == 1

\* ------------------------------------------------------------ text model
\* A lone surrogate code point: argv bytes that are not valid UTF-8 are
\* decoded to these, and they cannot be encoded when written to a file.
Surrogate == "\\udcff"
PlainChars == {"a"}
Chars == PlainChars \cup {Surrogate}

TextsOver(S) == UNION {[1..n -> S] : n \in 0..MaxLen}
PlainTexts == TextsOver(PlainChars)
ArgTexts == TextsOver(Chars)
ExitCodes == 0..MaxExit

Encodable(t) == \A i \in 1..Len(t) : t[i] # Surrogate

\* ------------------------------------------------------ program literals
PassedMsg == <<"\\u2713 Syntax and type checking passed">>
ExecHdr == <<"\n\n--- Execution Output ---\n">>
WarnHdr == <<"\n--- Warnings ---\n">>
TimeoutMsg == <<"Execution timeout (5s limit)">>
ValErrPrefix == <<"Validation error: ">>
WrapPre == <<"\nimport SwiftUI\n\n">>
WrapPost ==
  <<"\n\n// Minimal validation wrapper\nstruct ValidateApp: App {\n    var body: some Scene {\n        WindowGroup {\n            ContentView()\n        }\n    }\n}\n">>

EmptyResult == [valid |-> FALSE, output |-> <<>>, errors |-> <<>>]
NoProc == [ran |-> FALSE, returncode |-> 0, stdout |-> <<>>, stderr |-> <<>>]
NoCatch == [kind |-> "none", msg |-> <<>>]

\* --------------------------------------------------------- pure helpers
\* Python truthiness of an optional string argument: None and '' are false.
Truthy(opt) == opt.given /\ opt.text # <<>>

\* The f-string of validate_swiftui_view.
Wrapper(view_code) == WrapPre \o view_code \o WrapPost

\* Mutant: the view path forwards --run.
RunForForwardsRun(a) == a.run

\* The run flag with which main reaches validate_swift_code.
RunFor(a) == IF a.view THEN FALSE ELSE a.run

\* The source text with which main reaches validate_swift_code.
SrcFor(a, c) == IF a.view THEN Wrapper(c) ELSE c

\* Mutant: the wrong captured stream is reported.
AfterTypecheckStdout(res, p) ==
  IF p.returncode # 0
    THEN [res EXCEPT !.errors = p.stdout]
    ELSE [res EXCEPT !.valid = TRUE, !.output = PassedMsg]

\* Result after the type-check process has exited.
AfterTypecheck(res, p) ==
  IF p.returncode # 0
    THEN [res EXCEPT !.errors = p.stderr]
    ELSE [res EXCEPT !.valid = TRUE, !.output = PassedMsg]

\* Mutant: the early return on a failed type-check is missing.
NextAfterTypecheckNoReturn(p, r) == IF r THEN "exec_start" ELSE "finally"

\* Mutant: execution is attempted whether or not it was requested.
NextAfterTypecheckAlwaysRuns(p, r) ==
  IF p.returncode # 0 THEN "finally" ELSE "exec_start"

\* Where control goes after the type-check process has exited.
NextAfterTypecheck(p, r) ==
  IF p.returncode # 0 THEN "finally"
  ELSE IF r THEN "exec_start" ELSE "finally"

\* Mutant: a failing exit status of the executed program invalidates.
AfterExecChecksStatus(res, ep) ==
  LET withOut == [res EXCEPT !.output = @ \o ExecHdr \o ep.stdout,
                             !.valid = (ep.returncode = 0)]
  IN IF ep.stderr # <<>>
       THEN [withOut EXCEPT !.output = @ \o WarnHdr \o ep.stderr]
       ELSE withOut

\* Result after the execution process has finished within the timeout.
AfterExec(res, ep) ==
  LET withOut == [res EXCEPT !.output = @ \o ExecHdr \o ep.stdout]
  IN IF ep.stderr # <<>>
       THEN [withOut EXCEPT !.output = @ \o WarnHdr \o ep.stderr]
       ELSE withOut

\* except subprocess.TimeoutExpired
OnTimeout(res) == [res EXCEPT !.errors = TimeoutMsg]

\* except Exception as e
OnException(res, msg) == [res EXCEPT !.errors = ValErrPrefix \o msg]

\* ------------------------------------------------------------------ Init
Opt(given, text) == [given |-> given, text |-> text]

Init ==
  /\ \E c \in {Opt(FALSE, <<>>)} \cup {Opt(TRUE, t) : t \in ArgTexts},
        f \in BOOLEAN, v \in BOOLEAN, r \in BOOLEAN :
       args = [code |-> c, file |-> f, view |-> v, run |-> r]
  /\ fileText \in PlainTexts
  /\ stdinText \in PlainTexts
  /\ pc = "select"
  /\ code = <<>>
  /\ src = <<>>
  /\ run = FALSE
  /\ tempExists = FALSE
  /\ tempText = <<>>
  /\ result = EmptyResult
  /\ proc = NoProc
  /\ exec_proc = NoProc
  /\ active = {}
  /\ started = <<>>
  /\ caught = NoCatch
  /\ exitCode = -1

\* ------------------------------------------------------------------ main
\* if args.code: ... elif args.file: ... else: stdin
MainSelectCode ==
  /\ pc = "select"
  /\ code' = IF Truthy(args.code) THEN args.code.text
             ELSE IF args.file THEN fileText
             ELSE stdinText
  /\ pc' = "dispatch"
  /\ UNCHANGED <<args, fileText, stdinText, src, run, tempExists, tempText,
                 result, proc, exec_proc, active, started, caught, exitCode>>

\* open(args.file) or f.read() raises: the file is missing or unreadable.
MainReadRaises ==
  /\ pc = "select"
  /\ ~Truthy(args.code)
  /\ args.file
  /\ pc' = "crashed"
  /\ UNCHANGED <<args, fileText, stdinText, code, src, run, tempExists,
                 tempText, result, proc, exec_proc, active, started, caught,
                 exitCode>>

\* if args.view: validate_swiftui_view(code) else: validate_swift_code(code, run=args.run)
\* Entering validate_swift_code initialises the result dict.
MainDispatch ==
  /\ pc = "dispatch"
  /\ src' = SrcFor(args, code)
  /\ run' = RunFor(args)
  /\ result' = EmptyResult
  /\ pc' = "create"
  /\ UNCHANGED <<args, fileText, stdinText, code, tempExists, tempText, proc,
                 exec_proc, active, started, caught, exitCode>>

\* if result['valid']: sys.exit(0) else: sys.exit(1)
MainExit ==
  /\ pc = "returned"
  /\ exitCode' = IF result.valid THEN 0 ELSE 1
  /\ pc' = "exited"
  /\ UNCHANGED <<args, fileText, stdinText, code, src, run, tempExists,
                 tempText, result, proc, exec_proc, active, started, caught>>

\* --------------------------------------------------- validate_swift_code
\* Text the environment can put on a captured stream or in an exception.
EnvTexts == PlainTexts

ValidateUnchanged == UNCHANGED <<args, fileText, stdinText, code, src, run, exitCode>>

\* tempfile.NamedTemporaryFile(mode='w', suffix='.swift', delete=False)
CreateTemp ==
  /\ pc = "create"
  /\ tempExists' = TRUE
  /\ pc' = "write"
  /\ ValidateUnchanged
  /\ UNCHANGED <<tempText, result, proc, exec_proc, active, started, caught>>

\* No temporary file can be created (no usable temporary directory): the
\* exception is raised outside the try statement.
CreateTempRaises ==
  /\ pc = "create"
  /\ pc' = "raised"
  /\ ValidateUnchanged
  /\ UNCHANGED <<tempExists, tempText, result, proc, exec_proc, active,
                 started, caught>>

\* f.write(code); temp_file = f.name; the with statement closes the file.
WriteTemp ==
  /\ pc = "write"
  /\ Encodable(src)
  /\ tempText' = src
  /\ pc' = "tc_start"
  /\ ValidateUnchanged
  /\ UNCHANGED <<tempExists, result, proc, exec_proc, active, started, caught>>

\* f.write(code) or the closing flush raises (UnicodeEncodeError for a lone
\* surrogate, OSError for a full disk).  The with statement closes the file
\* and, because of delete=False, leaves it on disk; the exception is raised
\* outside the try statement.
WriteTempRaises ==
  /\ pc = "write"
  /\ pc' = "raised"
  /\ ValidateUnchanged
  /\ UNCHANGED <<tempExists, tempText, result, proc, exec_proc, active,
                 started, caught>>

\* subprocess.run(['swiftc', '-typecheck', temp_file], ...) starts the child.
TypecheckStart ==
  /\ pc = "tc_start"
  /\ started' = Append(started, "swiftc")
  /\ active' = active \cup {"swiftc"}
  /\ pc' = "tc_wait"
  /\ ValidateUnchanged
  /\ UNCHANGED <<tempExists, tempText, result, proc, exec_proc, caught>>

\* The child cannot be started (swiftc is not installed): except Exception.
TypecheckStartRaises ==
  /\ pc = "tc_start"
  /\ \E msg \in EnvTexts :
       /\ caught' = [kind |-> "exception", msg |-> msg]
       /\ result' = OnException(result, msg)
  /\ pc' = "finally"
  /\ ValidateUnchanged
  /\ UNCHANGED <<tempExists, tempText, proc, exec_proc, active, started>>

\* The type-check child exits; lines 40-48 decide what happens next.
TypecheckExit ==
  /\ pc = "tc_wait"
  /\ \E rc \in ExitCodes, err \in EnvTexts :
       LET p == [ran |-> TRUE, returncode |-> rc, stdout |-> <<>>, stderr |-> err]
       IN /\ proc' = p
          /\ result' = AfterTypecheck(result, p)
          /\ pc' = NextAfterTypecheck(p, run)
  /\ active' = active \ {"swiftc"}
  /\ ValidateUnchanged
  /\ UNCHANGED <<tempExists, tempText, exec_proc, started, caught>>

\* Reading the child's streams raises (undecodable bytes with text=True);
\* subprocess.run kills and reaps the child, then except Exception runs.
TypecheckWaitRaises ==
  /\ pc = "tc_wait"
  /\ \E msg \in EnvTexts :
       /\ caught' = [kind |-> "exception", msg |-> msg]
       /\ result' = OnException(result, msg)
  /\ active' = active \ {"swiftc"}
  /\ pc' = "finally"
  /\ ValidateUnchanged
  /\ UNCHANGED <<tempExists, tempText, proc, exec_proc, started>>

\* subprocess.run(['swift', temp_file], ..., timeout=5) starts the child.
ExecStart ==
  /\ pc = "exec_start"
  /\ started' = Append(started, "swift")
  /\ active' = active \cup {"swift"}
  /\ pc' = "exec_wait"
  /\ ValidateUnchanged
  /\ UNCHANGED <<tempExists, tempText, result, proc, exec_proc, caught>>

\* The execution child cannot be started: except Exception.
ExecStartRaises ==
  /\ pc = "exec_start"
  /\ \E msg \in EnvTexts :
       /\ caught' = [kind |-> "exception", msg |-> msg]
       /\ result' = OnException(result, msg)
  /\ pc' = "finally"
  /\ ValidateUnchanged
  /\ UNCHANGED <<tempExists, tempText, proc, exec_proc, active, started>>

\* The execution child finishes within the timeout.
ExecExit ==
  /\ pc = "exec_wait"
  /\ \E rc \in ExitCodes, out \in EnvTexts, err \in EnvTexts :
       LET ep == [ran |-> TRUE, returncode |-> rc, stdout |-> out, stderr |-> err]
       IN /\ exec_proc' = ep
          /\ result' = AfterExec(result, ep)
  /\ active' = active \ {"swift"}
  /\ pc' = "finally"
  /\ ValidateUnchanged
  /\ UNCHANGED <<tempExists, tempText, proc, started, caught>>

\* The timeout expires: subprocess.run kills and reaps the child and raises
\* TimeoutExpired; except subprocess.TimeoutExpired runs.
ExecTimeout ==
  /\ pc = "exec_wait"
  /\ caught' = [kind |-> "timeout", msg |-> <<>>]
  /\ result' = OnTimeout(result)
  /\ active' = active \ {"swift"}
  /\ pc' = "finally"
  /\ ValidateUnchanged
  /\ UNCHANGED <<tempExists, tempText, proc, exec_proc, started>>

\* Reading the execution child's streams raises: except Exception.
ExecWaitRaises ==
  /\ pc = "exec_wait"
  /\ \E msg \in EnvTexts :
       /\ caught' = [kind |-> "exception", msg |-> msg]
       /\ result' = OnException(result, msg)
  /\ active' = active \ {"swift"}
  /\ pc' = "finally"
  /\ ValidateUnchanged
  /\ UNCHANGED <<tempExists, tempText, proc, exec_proc, started>>

\* finally: os.unlink(temp_file); then the result is returned.
Unlink ==
  /\ pc = "finally"
  /\ tempExists' = FALSE
  /\ pc' = "returned"
  /\ ValidateUnchanged
  /\ UNCHANGED <<tempText, result, proc, exec_proc, active, started, caught>>

\* os.unlink raises (the file was removed or its directory made read-only
\* by someone else): the exception leaves the finally clause.
UnlinkRaises ==
  /\ pc = "finally"
  /\ \E stillThere \in BOOLEAN : tempExists' = stillThere
  /\ pc' = "raised"
  /\ ValidateUnchanged
  /\ UNCHANGED <<tempText, result, proc, exec_proc, active, started, caught>>

\* ------------------------------------------------------------------ Spec
Next ==
  \/ MainSelectCode
  \/ MainReadRaises
  \/ MainDispatch
  \/ CreateTemp
  \/ CreateTempRaises
  \/ WriteTemp
  \/ WriteTempRaises
  \/ TypecheckStart
  \/ TypecheckStartRaises
  \/ TypecheckExit
  \/ TypecheckWaitRaises
  \/ ExecStart
  \/ ExecStartRaises
  \/ ExecExit
  \/ ExecTimeout
  \/ ExecWaitRaises
  \/ Unlink
  \/ UnlinkRaises
  \/ MainExit

Spec == Init /\ [][Next]_vars

TypeOK ==
  /\ pc \in {"select", "dispatch", "crashed", "create", "write", "tc_start",
             "tc_wait", "exec_start", "exec_wait", "finally", "returned",
             "raised", "exited"}
  /\ result.valid \in BOOLEAN
  /\ active \subseteq {"swiftc", "swift"}
  /\ exitCode \in {-1, 0, 1}

\* ================================================================ claims
\* validate_swift_code has been left, by return or by a raised exception.
Left == pc \in {"returned", "raised", "exited"}
\* validate_swift_code has returned its result to main.
Returned == pc \in {"returned", "exited"}
\* Control is inside validate_swift_code or past it.
Entered == pc \notin {"select", "dispatch", "crashed"}
Elems(s) == {s[i] : i \in 1..Len(s)}
TypecheckFailed == proc.ran /\ proc.returncode # 0
TypecheckPassed == proc.ran /\ proc.returncode = 0

\* C1: once validate_swift_code has been left, on any exit path, the
\* temporary file no longer exists.
C1_TempFileGone == Left => ~tempExists

\* C2: with run=true, a passed type-check and an execution timeout, the
\* returned result is invalid and its errors are the timeout message.
C2_TimeoutInvalid ==
  (Returned /\ run /\ TypecheckPassed /\ caught.kind = "timeout")
    => (~result.valid /\ result.errors = TimeoutMsg)

\* C3: validate_swift_code never raises to its caller, and every exception
\* it catches is returned as valid = false with errors
\* "Validation error: <message>".
C3_NeverRaises ==
  /\ pc # "raised"
  /\ (Returned /\ caught.kind = "exception")
       => (~result.valid /\ result.errors = ValErrPrefix \o caught.msg)

\* C4: every returned result is either valid with empty errors or invalid
\* with empty output.
C4_ExactlyOneShape ==
  Returned => \/ (result.valid /\ result.errors = <<>>)
              \/ (~result.valid /\ result.output = <<>>)

\* C5: after a type-check process that exited non-zero the execution process
\* is never started, for either value of run, and the returned result is
\* invalid with errors equal to the captured stderr.
C5_TypecheckRejects ==
  TypecheckFailed =>
    /\ "swift" \notin Elems(started)
    /\ pc \notin {"exec_start", "exec_wait"}
    /\ Returned => (~result.valid /\ result.errors = proc.stderr)

C5_Witness ==
  /\ Returned /\ TypecheckFailed /\ run /\ proc.stderr # <<>>
  /\ ~result.valid

\* C6: with run=false and a type-check process that exited 0, no second
\* process is started and the returned result is valid, its output is the
\* type-check-passed message and its errors are empty.
C6_TypecheckOnly ==
  (TypecheckPassed /\ ~run) =>
    /\ started = <<"swiftc">>
    /\ Returned =>
         (result.valid /\ result.output = PassedMsg /\ result.errors = <<>>)

C6_Witness ==
  Returned /\ TypecheckPassed /\ ~run /\ ~args.view /\ result.valid

\* C7: with --view the execution process is never started, whatever the
\* fragment and even when --run is given: validate_swift_code is entered
\* with run = false.
C7_ViewNeverExecutes ==
  args.view =>
    /\ "swift" \notin Elems(started)
    /\ pc \notin {"exec_start", "exec_wait"}
    /\ Entered => ~run

C7_Witness ==
  args.view /\ args.run /\ Returned /\ TypecheckPassed /\ src = Wrapper(code)

\* C8: whenever --code is given, its text, the empty string included, is
\* the source that is validated.
C8_CodeTakesPrecedence ==
  (args.code.given /\ pc \notin {"select", "crashed"})
    => (code = args.code.text /\ (Entered => src = SrcFor(args, args.code.text)))

\* C9: at most one child process is active at a time, at most two are
\* started, swiftc is started first, no process is started twice, and swift
\* is started only after swiftc has exited with status 0 and run is true.
C9_SequentialProcesses ==
  /\ Cardinality(active) <= 1
  /\ Len(started) <= 2
  /\ started # <<>> => started[1] = "swiftc"
  /\ \A i, j \in 1..Len(started) : started[i] = started[j] => i = j
  /\ active \subseteq Elems(started)
  /\ "swift" \in Elems(started) =>
       (TypecheckPassed /\ run /\ (Len(started) = 2 => started[2] = "swift"))
  /\ pc = "exec_wait" => active = {"swift"}

C9_Witness == started = <<"swiftc", "swift">> /\ active = {"swift"}

\* C10: when the execution process finishes within the timeout the returned
\* result is valid whatever its exit status, its stdout is appended to the
\* output, and the warnings section is present exactly when its stderr is
\* non-empty.
C10_ExecutionOutput ==
  (Returned /\ exec_proc.ran) =>
    /\ result.valid
    /\ \E tail \in {<<>>, WarnHdr \o exec_proc.stderr} :
         result.output = PassedMsg \o ExecHdr \o exec_proc.stdout \o tail
    /\ (WarnHdr[1] \in Elems(result.output)) <=> (exec_proc.stderr # <<>>)

C10_Witness ==
  /\ Returned /\ exec_proc.ran /\ exec_proc.returncode # 0
  /\ exec_proc.stderr # <<>> /\ exec_proc.stdout # <<>> /\ result.valid

====
